---- MODULE Spec2Model ----
(***************************************************************************)
(* Model of render_monitor.py: the Polymarket BTC 15-minute market monitor.*)
(*                                                                         *)
(* Times are whole seconds (UTC).  Real numbers (prices, odds, the 24h     *)
(* change, volume, minutes) are fixed-point with three decimals: the       *)
(* integer n stands for n/1000.  Binary floating-point rounding is not     *)
(* modelled; the inputs below are values on which the double computation   *)
(* of the program is exact.                                                *)
(*                                                                         *)
(* JSON / Python values are tagged records [k, n, s]:                      *)
(*   k = "absent"  the key is not in the dict                              *)
(*   k = "none"    JSON null / Python None                                 *)
(*   k = "num"     a number, n/1000                                        *)
(*   k = "numstr"  a string that float() parses to n/1000                  *)
(*   k = "iso"     an ISO-8601 timestamp string with offset, n seconds     *)
(*   k = "str"     any other string, s its characters                      *)
(***************************************************************************)
EXTENDS Integers, Sequences, FiniteSets, TLC

VARIABLES
  \* the poll loop (main, check_for_new_markets); alerts, everRaised, listing
  \* and stopSignal record what has happened: alerts[i] the checks that
  \* dispatched an alert for source[i]; listing[i] whether the fetches made
  \* during the window of source[i] returned it ("none": no such fetch yet,
  \* "all", "missed")
  pc, now, check_count, btc_price, btc_change_24h, markets, idx,
  new_markets_found, NEBULA_WEBHOOK_URL, source, sendLog, alerts, exc,
  everRaised, listing, stopSignal,
  \* analyze_market_timing applied to drawn inputs
  t_market, t_now, t_result, t_pc,
  \* generate_prediction applied to drawn inputs
  p_change, p_market, p_result, p_pc

loopVars == <<pc, now, check_count, btc_price, btc_change_24h, markets, idx,
              new_markets_found, NEBULA_WEBHOOK_URL, source, sendLog, alerts,
              exc, everRaised, listing, stopSignal>>
timingVars == <<t_market, t_now, t_result, t_pc>>
predictVars == <<p_change, p_market, p_result, p_pc>>
vars == <<loopVars, timingVars, predictVars>>

----------------------------------------------------------------------------
(* Values *)

Fx(x) == x * 1000

Absent == [k |-> "absent", n |-> 0, s |-> <<>>]
None == [k |-> "none", n |-> 0, s |-> <<>>]
Num(x) == [k |-> "num", n |-> x, s |-> <<>>]
NumStr(x) == [k |-> "numstr", n |-> x, s |-> <<>>]
IsoStr(t) == [k |-> "iso", n |-> t, s |-> <<>>]
Str(chars) == [k |-> "str", n |-> 0, s |-> chars]

AbsentList == [k |-> "absent", items |-> <<>>]
NoneList == [k |-> "none", items |-> <<>>]
List(xs) == [k |-> "list", items |-> xs]

\* dict.get(key, default)
Get(v, default) == IF v.k = "absent" THEN default ELSE v

\* dict.get(key): None when the key is absent
GetOrNone(v) == IF v.k = "absent" THEN None ELSE v

\* float(v)
Float(v) ==
  CASE v.k \in {"num", "numstr"} -> [exc |-> "none", n |-> v.n]
    [] v.k \in {"str", "iso"} -> [exc |-> "ValueError", n |-> 0]
    [] OTHER -> [exc |-> "TypeError", n |-> 0]

UpperChars == <<"U", "P", "D", "O", "W", "N", "Y", "E", "S">>
LowerChars == <<"u", "p", "d", "o", "w", "n", "y", "e", "s">>

LowerChar(c) ==
  IF \E i \in 1..Len(UpperChars) : UpperChars[i] = c
  THEN LowerChars[CHOOSE i \in 1..Len(UpperChars) : UpperChars[i] = c]
  ELSE c

\* str.lower()
Lower(chars) == [i \in 1..Len(chars) |-> LowerChar(chars[i])]

\* sub in chars
Contains(sub, chars) ==
  \E i \in 1..(Len(chars) - Len(sub) + 1) :
    SubSeq(chars, i, i + Len(sub) - 1) = sub

----------------------------------------------------------------------------
(* analyze_market_timing *)

MarketMinutes == 15
FreshMinutes == 3

\* (now_utc - start_time_utc).total_seconds() / 60
MinutesBetween(start, end) == Fx(end - start) \div 60

NotNew == [is_new |-> FALSE, start_time_wib |-> None, minutes_running |-> None]

\* is_new = 0 <= minutes_running <= 3
IsNew_exclusive(minutes_running) ==
  0 <= minutes_running /\ minutes_running < Fx(FreshMinutes)

IsNew_wide(minutes_running) ==
  0 <= minutes_running /\ minutes_running <= Fx(FreshMinutes + 1)

IsNew(minutes_running) ==
  0 <= minutes_running /\ minutes_running <= Fx(FreshMinutes)

\* Returns (is_new, start_time_wib, minutes_running).  start_time_wib is the
\* start instant (the +7h offset changes only how it is printed).
analyze_market_timing(market, now_utc) ==
  LET end_time_str == GetOrNone(market.end_date_iso)
  IN  IF end_time_str.k = "none" \/ (end_time_str.k = "str" /\ end_time_str.s = <<>>)
      THEN NotNew                      \* if not end_time_str
      ELSE IF end_time_str.k # "iso"
      THEN NotNew                      \* fromisoformat raises; caught at line 97
      ELSE LET end_time_utc == end_time_str.n
               start_time_utc == end_time_utc - MarketMinutes * 60
               minutes_running == MinutesBetween(start_time_utc, now_utc)
           IN  IF now_utc < start_time_utc \/ now_utc > end_time_utc
               THEN NotNew
               ELSE [is_new |-> IsNew(minutes_running),
                     start_time_wib |-> Num(start_time_utc),
                     minutes_running |-> Num(minutes_running)]

----------------------------------------------------------------------------
(* generate_prediction *)

UpWord == <<"u", "p">>
DownWord == <<"d", "o", "w", "n">>

\* next((m for m in markets_data if word in m.get("outcome", "").lower()), None)
\* from position i on: idx = 0 stands for None.
RECURSIVE FindFrom(_, _, _)
FindFrom(items, word, i) ==
  IF i > Len(items) THEN [exc |-> "none", idx |-> 0]
  ELSE LET label == Get(items[i].outcome, Str(<<>>))
       IN  IF label.k \notin {"str", "numstr", "iso"}
           THEN [exc |-> "AttributeError", idx |-> 0]
           ELSE IF Contains(word, Lower(label.s))
           THEN [exc |-> "none", idx |-> i]
           ELSE FindFrom(items, word, i + 1)

FindLeg(items, word) == FindFrom(items, word, 1)

\* float(leg.get("outcomePrices", ["0.5"])[0])
LegPrice(leg) ==
  LET prices == IF leg.outcomePrices.k = "absent"
                THEN List(<<NumStr(500)>>) ELSE leg.outcomePrices
  IN  IF prices.k = "none" THEN [exc |-> "TypeError", n |-> 0]
      ELSE IF prices.items = <<>> THEN [exc |-> "IndexError", n |-> 0]
      ELSE Float(prices.items[1])

\* float(...) * 100
Odds(price) == (price * Fx(100)) \div 1000

Unknown(why) ==
  [exc |-> "none", prediction |-> "UNKNOWN", confidence |-> "LOW",
   reasoning |-> <<why>>, score |-> 0]

Raised(e) ==
  [exc |-> e, prediction |-> "UNKNOWN", confidence |-> "LOW",
   reasoning |-> <<>>, score |-> 0]

MomentumScore_inclusive(change) ==
  IF change.k = "none" THEN 0
  ELSE IF change.n >= Fx(2) THEN 2
  ELSE IF change.n > 500 THEN 1
  ELSE IF change.n < -Fx(2) THEN -2
  ELSE IF change.n < -500 THEN -1
  ELSE 0

\* Factor 1: BTC momentum
MomentumScore(change) ==
  IF change.k = "none" THEN 0
  ELSE IF change.n > Fx(2) THEN 2
  ELSE IF change.n > 500 THEN 1
  ELSE IF change.n < -Fx(2) THEN -2
  ELSE IF change.n < -500 THEN -1
  ELSE 0

MomentumFactor(change) ==
  IF change.k = "none" THEN <<>>
  ELSE IF change.n > Fx(2) THEN <<"BTC strong bullish momentum">>
  ELSE IF change.n > 500 THEN <<"BTC bullish">>
  ELSE IF change.n < -Fx(2) THEN <<"BTC strong bearish momentum">>
  ELSE IF change.n < -500 THEN <<"BTC bearish">>
  ELSE <<"BTC neutral">>

\* Factor 2: crowd sentiment
CrowdScore(up_odds, down_odds) ==
  LET odds_diff == up_odds - down_odds
  IN  IF odds_diff > Fx(10) THEN 1
      ELSE IF odds_diff < -Fx(10) THEN -1
      ELSE 0

CrowdFactor(up_odds, down_odds) ==
  LET odds_diff == up_odds - down_odds
  IN  IF odds_diff > Fx(10) THEN <<"Crowd leans UP">>
      ELSE IF odds_diff < -Fx(10) THEN <<"Crowd leans DOWN">>
      ELSE <<"Crowd neutral">>

\* Factor 3: volume (advisory, no score)
VolumeFactor(volume) ==
  IF volume < Fx(100) THEN <<"Very low volume - high risk">>
  ELSE IF volume < Fx(500) THEN <<"Low volume - moderate risk">>
  ELSE <<"Good volume">>

Label_eager(score) ==
  IF score >= 1
  THEN [prediction |-> "UP", confidence |-> IF score >= 3 THEN "HIGH" ELSE "MEDIUM"]
  ELSE IF score <= -1
  THEN [prediction |-> "DOWN", confidence |-> IF score <= -3 THEN "HIGH" ELSE "MEDIUM"]
  ELSE [prediction |-> "NEUTRAL", confidence |-> "LOW"]

\* lines 168-177
Label(score) ==
  IF score >= 2
  THEN [prediction |-> "UP", confidence |-> IF score >= 3 THEN "HIGH" ELSE "MEDIUM"]
  ELSE IF score <= -2
  THEN [prediction |-> "DOWN", confidence |-> IF score <= -3 THEN "HIGH" ELSE "MEDIUM"]
  ELSE [prediction |-> "NEUTRAL", confidence |-> "LOW"]

\* The body of the try block, lines 109-181; exc names the exception it raises.
PredictionBody(price, btc_change, market) ==
  LET markets_data == IF market.markets.k = "absent" THEN List(<<>>) ELSE market.markets
  IN
  IF markets_data.k = "none" \/ Len(markets_data.items) < 2
  THEN Unknown("Insufficient market data")
  ELSE
  LET up == FindLeg(markets_data.items, UpWord)
  IN
  IF up.exc # "none" THEN Raised(up.exc)
  ELSE
  LET down == FindLeg(markets_data.items, DownWord)
  IN
  IF down.exc # "none" THEN Raised(down.exc)
  ELSE IF up.idx = 0 \/ down.idx = 0 THEN Unknown("Cannot find UP/DOWN outcomes")
  ELSE
  LET upP == LegPrice(markets_data.items[up.idx])
      downP == LegPrice(markets_data.items[down.idx])
      volume == Float(Get(market.volume, Num(0)))
  IN
  IF upP.exc # "none" THEN Raised(upP.exc)
  ELSE IF downP.exc # "none" THEN Raised(downP.exc)
  ELSE IF volume.exc # "none" THEN Raised(volume.exc)
  ELSE
  LET up_odds == Odds(upP.n)
      down_odds == Odds(downP.n)
      score == MomentumScore(btc_change) + CrowdScore(up_odds, down_odds)
      lab == Label(score)
  IN  [exc |-> "none", prediction |-> lab.prediction, confidence |-> lab.confidence,
       reasoning |-> MomentumFactor(btc_change) \o CrowdFactor(up_odds, down_odds)
                       \o VolumeFactor(volume.n),
       score |-> score]

generate_prediction_noexcept(price, btc_change, market) ==
  PredictionBody(price, btc_change, market)

\* try: ... except Exception as e: return "UNKNOWN", "LOW", f"Error in prediction: {e}"
generate_prediction(price, btc_change, market) ==
  LET r == PredictionBody(price, btc_change, market)
  IN  IF r.exc # "none"
      THEN Unknown("Error in prediction")
      ELSE r

----------------------------------------------------------------------------
(* The vocabulary of the claims about a market record *)

\* What the claims call the legs, the up leg and the down leg of a market.
LegsOf(m) == IF m.markets.k = "list" THEN m.markets.items ELSE <<>>

StringLabel(leg) == leg.outcome.k \in {"str", "absent"}

Matches(leg, word) ==
  /\ leg.outcome.k = "str"
  /\ Contains(word, Lower(leg.outcome.s))

FirstMatch(legs, word) ==
  IF \E i \in 1..Len(legs) : Matches(legs[i], word)
  THEN CHOOSE i \in 1..Len(legs) :
         /\ Matches(legs[i], word)
         /\ \A j \in 1..(i - 1) : ~Matches(legs[j], word)
  ELSE 0

\* a label that is not a string, among the legs looked at to find `word`
BadLabel(legs, word) ==
  \E i \in 1..Len(legs) :
    /\ ~StringLabel(legs[i])
    /\ FirstMatch(legs, word) = 0 \/ i < FirstMatch(legs, word)

BadPrice(leg) ==
  \/ leg.outcomePrices.k = "none"
  \/ /\ leg.outcomePrices.k = "list"
     /\ \/ leg.outcomePrices.items = <<>>
        \/ leg.outcomePrices.items[1].k \notin {"num", "numstr"}

BadVolume(m) == m.volume.k \notin {"num", "numstr", "absent"}

Malformed(m) ==
  LET legs == LegsOf(m)
      u == FirstMatch(legs, UpWord)
      d == FirstMatch(legs, DownWord)
  IN  \/ Len(legs) < 2
      \/ BadLabel(legs, UpWord) \/ BadLabel(legs, DownWord)
      \/ u = 0 \/ d = 0
      \/ BadPrice(legs[u]) \/ BadPrice(legs[d])
      \/ BadVolume(m)

PriceOf(leg) ==
  IF leg.outcomePrices.k = "absent" THEN 500 ELSE leg.outcomePrices.items[1].n

\* up_odds - down_odds, in thousandths of a percentage point
OddsDiff(m) ==
  LET legs == LegsOf(m)
  IN  100 * PriceOf(legs[FirstMatch(legs, UpWord)])
        - 100 * PriceOf(legs[FirstMatch(legs, DownWord)])

----------------------------------------------------------------------------
(* Market records, and the idle values of each group of variables *)

Market(slug, end, legs, volume) ==
  [slug |-> slug, end_date_iso |-> end, markets |-> legs, volume |-> volume]

Leg(label, prices) == [outcome |-> label, outcomePrices |-> prices]

LabelUp == Str(<<"U", "p">>)
LabelUP == Str(<<"U", "P">>)
LabelDown == Str(<<"D", "o", "w", "n">>)
Labeldown == Str(<<"d", "o", "w", "n">>)
Garbage == Str(<<"a", "b", "c">>)

\* the poll loop's variables, pinned while a pure function is exercised
LoopIdle ==
  /\ pc = "idle" /\ now = 0 /\ check_count = 0
  /\ btc_price = None /\ btc_change_24h = None
  /\ markets = <<>> /\ idx = 0 /\ new_markets_found = 0
  /\ NEBULA_WEBHOOK_URL = FALSE /\ source = <<>> /\ sendLog = <<>>
  /\ alerts = <<>> /\ exc = "none" /\ everRaised = FALSE
  /\ listing = <<>> /\ stopSignal = FALSE

TimingIdle ==
  /\ t_market = Market("idle", Absent, AbsentList, Absent)
  /\ t_now = 0 /\ t_result = NotNew /\ t_pc = "idle"

PredictIdle ==
  /\ p_market = Market("idle", Absent, AbsentList, Absent)
  /\ p_change = None /\ p_result = Unknown("idle") /\ p_pc = "idle"

----------------------------------------------------------------------------
(* format_notification *)

\* The message, by the values it renders.
Message(slug, pred, up_odds, down_odds, volume, warning, start, running) ==
  [slug |-> slug, prediction |-> pred.prediction, confidence |-> pred.confidence,
   up_odds |-> up_odds, down_odds |-> down_odds, volume |-> volume,
   volume_warning |-> warning,
   started |-> start, closes |-> start + MarketMinutes * 60,
   time_to_close |-> Fx(MarketMinutes) - running, running |-> running]

NoMessage ==
  Message("", Unknown(""), 0, 0, 0, "", 0, 0)

FormatRaised(e) == [exc |-> e, message |-> NoMessage]

\* lines 213-217
VolumeWarning(volume) ==
  IF volume < Fx(100) THEN "CRITICAL WARNING"
  ELSE IF volume < Fx(500) THEN "WARNING"
  ELSE ""

\* exc names the exception the call raises: nothing in format_notification
\* but the call of generate_prediction is inside a try block.
format_notification(market, price, change, start_time_wib, minutes_running) ==
  LET pred == generate_prediction(price, change, market)
      slug == Get(market.slug, Str(<<>>))
      markets_data == IF market.markets.k = "absent" THEN List(<<>>) ELSE market.markets
  IN
  IF pred.exc # "none" THEN FormatRaised(pred.exc)
  ELSE IF markets_data.k = "none" THEN FormatRaised("TypeError")
  ELSE
  LET up == FindLeg(markets_data.items, UpWord)
  IN
  IF up.exc # "none" THEN FormatRaised(up.exc)
  ELSE
  LET down == FindLeg(markets_data.items, DownWord)
  IN
  IF down.exc # "none" THEN FormatRaised(down.exc)
  ELSE
  LET upP == IF up.idx # 0 THEN LegPrice(markets_data.items[up.idx])
             ELSE [exc |-> "none", n |-> 500]
      downP == IF down.idx # 0 THEN LegPrice(markets_data.items[down.idx])
               ELSE [exc |-> "none", n |-> 500]
      volume == Float(Get(market.volume, Num(0)))
  IN
  IF upP.exc # "none" THEN FormatRaised(upP.exc)
  ELSE IF downP.exc # "none" THEN FormatRaised(downP.exc)
  ELSE IF volume.exc # "none" THEN FormatRaised(volume.exc)
  \* f"{btc_price:,.0f} ({btc_change_24h:+.2f}% 24h)"
  ELSE IF price.k # "num" \/ change.k # "num" THEN FormatRaised("TypeError")
  ELSE [exc |-> "none",
        message |-> Message(slug.s, pred, Odds(upP.n), Odds(downP.n), volume.n,
                            VolumeWarning(volume.n), start_time_wib.n,
                            minutes_running.n)]

----------------------------------------------------------------------------
(* send_notification *)

\* outcome is what the webhook does with the POST: "ok", "transport" (the
\* request fails or times out) or "status" (raise_for_status raises).
\* echoed: the message is printed to the console.
send_notification_nocatch(configured, message, outcome) ==
  IF ~configured
  THEN [exc |-> "none", result |-> FALSE, echoed |-> TRUE, posted |-> FALSE]
  ELSE IF outcome = "ok"
  THEN [exc |-> "none", result |-> TRUE, echoed |-> FALSE, posted |-> TRUE]
  ELSE [exc |-> "HTTPError", result |-> FALSE, echoed |-> FALSE, posted |-> TRUE]

send_notification(configured, message, outcome) ==
  IF ~configured
  THEN [exc |-> "none", result |-> FALSE, echoed |-> TRUE, posted |-> FALSE]
  ELSE IF outcome = "ok"
  THEN [exc |-> "none", result |-> TRUE, echoed |-> FALSE, posted |-> TRUE]
  ELSE [exc |-> "none", result |-> FALSE, echoed |-> TRUE, posted |-> TRUE]

----------------------------------------------------------------------------
(* main and check_for_new_markets *)

CHECK_INTERVAL == 120
RetryDelay == 60
PriceTimeout == 10
MarketsTimeout == 15
WebhookTimeout == 10

MaxTime == 250

GoodLegs ==
  List(<<Leg(LabelUp, List(<<NumStr(650), NumStr(350)>>)),
         Leg(LabelDown, List(<<NumStr(350), NumStr(650)>>))>>)

BadOddsLegs ==
  List(<<Leg(LabelUp, List(<<Garbage>>)),
         Leg(LabelDown, List(<<NumStr(350), NumStr(650)>>))>>)

\* what the market source holds: two instances
Sources ==
  { <<Market(Str(<<"m", "1">>), IsoStr(900), GoodLegs, Num(Fx(1000))),
      Market(Str(<<"m", "2">>), IsoStr(c2), l2, Num(Fx(300)))>> :
      l2 \in {GoodLegs, BadOddsLegs}, c2 \in {900, 1000} }

\* what one fetch of the market source can return; <<>> also stands for a
\* failed fetch (line 63)
FetchResults(src) ==
  {<<>>, <<src[1]>>, <<src[2]>>, <<src[1], src[2]>>, <<src[2], src[1]>>}

\* what one fetch of the price source can return: (price, change)
PriceResults ==
  { <<Num(Fx(65000)), Num(3500)>>,
    <<Num(Fx(65000)), None>>,
    <<None, None>> }

\* what the webhook can do with one POST, and how long the call takes;
\* without an endpoint nothing is posted
WebhookOutcomes(configured) ==
  IF configured THEN {"ok", "transport", "status"} ELSE {"unsent"}

WebhookLatencies(configured) ==
  IF configured THEN {0, WebhookTimeout} ELSE {0}

InWindow(m, t) ==
  /\ m.end_date_iso.k = "iso"
  /\ m.end_date_iso.n - MarketMinutes * 60 <= t
  /\ t <= m.end_date_iso.n

Init ==
  /\ pc = "top" /\ now = 0 /\ check_count = 0
  /\ btc_price = None /\ btc_change_24h = None
  /\ markets = <<>> /\ idx = 0 /\ new_markets_found = 0
  /\ NEBULA_WEBHOOK_URL \in BOOLEAN
  /\ source \in Sources
  /\ sendLog = <<>>
  /\ alerts = [i \in 1..2 |-> <<>>]
  /\ exc = "none" /\ everRaised = FALSE
  /\ listing = [i \in 1..2 |-> "none"]
  /\ stopSignal = FALSE
  /\ TimingIdle /\ PredictIdle

SourceIndex(m) == CHOOSE i \in 1..2 : source[i] = m

\* An exception escapes check_for_new_markets: caught at line 342.
Raise(e) ==
  /\ pc' = "recovering"
  /\ exc' = e
  /\ everRaised' = TRUE

\* lines 328-278: count the check, fetch the price, print it
StartCheck ==
  /\ pc = "top"
  /\ check_count' = check_count + 1
  /\ \E r \in PriceResults, lat \in {0, PriceTimeout} :
       /\ btc_price' = r[1]
       /\ btc_change_24h' = r[2]
       /\ now' = now + lat
       /\ IF r[1].k = "num" /\ r[2].k # "num"
          THEN Raise("TypeError")
          ELSE pc' = "fetch_markets" /\ UNCHANGED <<exc, everRaised>>
  /\ sendLog' = <<>>
  /\ markets' = <<>> /\ idx' = 0 /\ new_markets_found' = 0
  /\ UNCHANGED <<NEBULA_WEBHOOK_URL, source, alerts, listing, stopSignal,
                 timingVars, predictVars>>

\* lines 281-289
FetchMarkets ==
  /\ pc = "fetch_markets"
  /\ \E ms \in FetchResults(source), lat \in {0, MarketsTimeout} :
       /\ markets' = ms
       /\ now' = now + lat
       /\ listing' = [i \in 1..2 |->
            IF ~InWindow(source[i], now + lat) THEN listing[i]
            ELSE IF \A j \in 1..Len(ms) : ms[j] # source[i] THEN "missed"
            ELSE IF listing[i] = "none" THEN "all"
            ELSE listing[i]]
       /\ IF ms = <<>>
          THEN pc' = "sleep" /\ idx' = 0
          ELSE pc' = "loop" /\ idx' = 1
  /\ new_markets_found' = 0
  /\ UNCHANGED <<check_count, btc_price, btc_change_24h, NEBULA_WEBHOOK_URL,
                 source, sendLog, alerts, exc, everRaised, stopSignal,
                 timingVars, predictVars>>

\* lines 290-306: one iteration of the loop over the fetched markets
ProcessMarket ==
  /\ pc = "loop" /\ idx <= Len(markets)
  /\ LET market == markets[idx]
         timing == analyze_market_timing(market, now)
         fmt == format_notification(market, btc_price, btc_change_24h,
                                    timing.start_time_wib, timing.minutes_running)
         i == SourceIndex(market)
     IN  IF ~timing.is_new
         THEN /\ idx' = idx + 1
              /\ UNCHANGED <<pc, now, new_markets_found, sendLog, alerts, exc,
                             everRaised>>
         ELSE /\ new_markets_found' = new_markets_found + 1
              /\ IF fmt.exc # "none"
                 THEN /\ Raise(fmt.exc)
                      /\ UNCHANGED <<now, idx, sendLog, alerts>>
                 ELSE \E outcome \in WebhookOutcomes(NEBULA_WEBHOOK_URL),
                         lat \in WebhookLatencies(NEBULA_WEBHOOK_URL) :
                        LET sent == send_notification(NEBULA_WEBHOOK_URL,
                                                      fmt.message, outcome)
                        IN  /\ now' = now + lat
                            /\ sendLog' = Append(sendLog,
                                 [slug |-> fmt.message.slug, outcome |-> outcome,
                                  result |-> sent.result, echoed |-> sent.echoed,
                                  posted |-> sent.posted])
                            /\ alerts' = [alerts EXCEPT ![i] = Append(@, check_count)]
                            /\ IF sent.exc # "none"
                               THEN Raise(sent.exc) /\ UNCHANGED idx
                               ELSE /\ idx' = idx + 1
                                    /\ UNCHANGED <<pc, exc, everRaised>>
  /\ UNCHANGED <<check_count, btc_price, btc_change_24h, markets,
                 NEBULA_WEBHOOK_URL, source, listing, stopSignal,
                 timingVars, predictVars>>

\* lines 308-335: the loop is over
FinishCheck ==
  /\ pc = "loop" /\ idx > Len(markets)
  /\ pc' = "sleep"
  /\ UNCHANGED <<now, check_count, btc_price, btc_change_24h, markets, idx,
                 new_markets_found, NEBULA_WEBHOOK_URL, source, sendLog, alerts,
                 exc, everRaised, listing, stopSignal, timingVars, predictVars>>

\* line 337: time.sleep(CHECK_INTERVAL)
Sleep ==
  /\ pc = "sleep"
  /\ now + CHECK_INTERVAL <= MaxTime
  /\ now' = now + CHECK_INTERVAL
  /\ pc' = "top"
  /\ UNCHANGED <<check_count, btc_price, btc_change_24h, markets, idx,
                 new_markets_found, NEBULA_WEBHOOK_URL, source, sendLog, alerts,
                 exc, everRaised, listing, stopSignal, timingVars, predictVars>>

Recover_exit ==
  /\ pc = "recovering"
  /\ pc' = "stopped"
  /\ exc' = "none"
  /\ UNCHANGED <<now, check_count, btc_price, btc_change_24h, markets, idx,
                 new_markets_found, NEBULA_WEBHOOK_URL, source, sendLog, alerts,
                 everRaised, listing, stopSignal, timingVars, predictVars>>

\* lines 342-345: except Exception: ... time.sleep(60), then the next iteration
Recover ==
  /\ pc = "recovering"
  /\ now + RetryDelay <= MaxTime
  /\ now' = now + RetryDelay
  /\ pc' = "top"
  /\ exc' = "none"
  /\ UNCHANGED <<check_count, btc_price, btc_change_24h, markets, idx,
                 new_markets_found, NEBULA_WEBHOOK_URL, source, sendLog, alerts,
                 everRaised, listing, stopSignal, timingVars, predictVars>>

\* KeyboardInterrupt: inside the try block it is caught at line 339 (break);
\* during the back-off sleep of line 345 it leaves main uncaught.  Either
\* way the loop is over.
Stop ==
  /\ pc \notin {"stopped", "idle"}
  /\ pc' = "stopped"
  /\ stopSignal' = TRUE
  /\ UNCHANGED <<now, check_count, btc_price, btc_change_24h, markets, idx,
                 new_markets_found, NEBULA_WEBHOOK_URL, source, sendLog, alerts,
                 exc, everRaised, listing, timingVars, predictVars>>

Next ==
  \/ StartCheck
  \/ FetchMarkets
  \/ ProcessMarket
  \/ FinishCheck
  \/ Sleep
  \/ Recover
  \/ Stop

Spec == Init /\ [][Next]_vars

StartOf(m) == m.end_date_iso.n - MarketMinutes * 60

\* C2: within one poll cycle, a failure while processing one fresh market
\* (with the price signal available) does not prevent the remaining
\* instances of the fetched list from being processed in that cycle: the
\* cycle is never abandoned at an instance that has instances after it.
C2_FailureIsolated ==
  (pc = "recovering" /\ idx >= 1 /\ btc_price.k = "num" /\ btc_change_24h.k = "num")
    => idx = Len(markets)

\* C3: when the price fetch fails (price and change both unavailable) the
\* cycle is not aborted: no exception of format_notification reaches the
\* orchestrator, and every fresh market of the cycle is dispatched.
C3_PriceFailureTolerated ==
  (/\ check_count > 0
   /\ btc_price.k = "none" /\ btc_change_24h.k = "none"
   /\ \A j \in 1..Len(markets) : ~Malformed(markets[j]))
    => /\ pc # "recovering"
       /\ pc = "sleep" => Len(sendLog) = new_markets_found

\* C6: the poll loop has no terminal state other than an operator stop.  An
\* exception escaping a cycle moves it to RECOVERING; from RECOVERING the only
\* step besides a stop is back to the top of the loop after 60 seconds, and
\* that step is possible; from the sleep after a completed cycle the only
\* step besides a stop is the next cycle after 120 seconds; the loop ends
\* only on a stop signal, and nothing of the partial cycle is done after it.
C6_LoopStates ==
  [][ /\ (exc' # "none" /\ exc = "none") => pc' = "recovering"
      /\ (pc' = "recovering" /\ pc # "recovering") => exc' # "none"
      /\ pc = "recovering" =>
           \/ pc' = "stopped" /\ stopSignal'
           \/ pc' = "top" /\ now' = now + 60 /\ exc' = "none"
      /\ (pc = "recovering" /\ now + 60 <= MaxTime) => ENABLED Recover
      /\ pc = "sleep" =>
           \/ pc' = "stopped" /\ stopSignal'
           \/ pc' = "top" /\ now' = now + 120
      /\ pc = "top" =>
           \/ pc' = "stopped" /\ stopSignal'
           \/ check_count' = check_count + 1
      /\ (pc' = "stopped" /\ pc # "stopped") =>
           /\ stopSignal' /\ ~stopSignal
           /\ UNCHANGED <<now, check_count, markets, idx, sendLog, alerts>>
      /\ pc = "stopped" => UNCHANGED vars
    ]_vars

C6_Witness ==
  /\ everRaised /\ exc = "none"
  /\ pc = "loop" /\ check_count >= 2 /\ now >= 60

\* C7: polling every 2 minutes catches all market starts: a market that the
\* source returned on every fetch during its window has been alerted by some
\* cycle of the running monitor once its first three minutes are over.
C7_AllStartsCaught ==
  \A i \in 1..2 :
    (/\ pc # "stopped"
     /\ listing[i] = "all"
     /\ now > StartOf(source[i]) + FreshMinutes * 60)
      => alerts[i] # <<>>

\* C8: send_notification never aborts the poll cycle: with no endpoint it
\* echoes the message and returns Failed; with an endpoint, a transport
\* error or non-success response is caught, the message echoed and Failed
\* returned; in every case the cycle goes on to the next market instance.
C8_DispatchNeverAborts ==
  [][ Len(sendLog') > Len(sendLog) =>
        LET e == sendLog'[Len(sendLog')]
        IN  /\ pc' = "loop" /\ idx' = idx + 1 /\ exc' = "none"
            /\ ~NEBULA_WEBHOOK_URL => (~e.result /\ e.echoed /\ ~e.posted)
            /\ (NEBULA_WEBHOOK_URL /\ e.outcome # "ok") => (~e.result /\ e.echoed)
            /\ (NEBULA_WEBHOOK_URL /\ e.outcome = "ok") => e.result
    ]_vars

C8_Witness ==
  /\ NEBULA_WEBHOOK_URL
  /\ Len(sendLog) = 2
  /\ sendLog[1].outcome = "transport" /\ ~sendLog[1].result
  /\ pc = "sleep"

\* C9: in a run where no cycle raises, the same market instance is alerted
\* in at most two poll cycles, and those two cycles are consecutive.
C9_AtMostTwoAlerts ==
  ~everRaised =>
    \A i \in 1..2 :
      /\ Len(alerts[i]) <= 2
      /\ Len(alerts[i]) = 2 => alerts[i][2] = alerts[i][1] + 1

C9_Witness ==
  /\ ~everRaised
  /\ Len(alerts[1]) = 2

----------------------------------------------------------------------------
(* analyze_market_timing on drawn inputs *)

MaxNow == 1100
TimingCloses == {900, 1000}

TimingEnds ==
  {IsoStr(c) : c \in TimingCloses} \cup {Absent, None, Str(<<>>), Garbage}

TimingInit ==
  /\ t_market \in {Market("btc-15m", e, AbsentList, Absent) : e \in TimingEnds}
  /\ t_now \in 0..MaxNow
  /\ t_result = NotNew
  /\ t_pc = "input"
  /\ LoopIdle /\ PredictIdle

Classify ==
  /\ t_pc = "input"
  /\ t_result' = analyze_market_timing(t_market, t_now)
  /\ t_pc' = "done"
  /\ UNCHANGED <<t_market, t_now, loopVars, predictVars>>

TimingNext == Classify

TimingSpec == TimingInit /\ [][TimingNext]_vars

\* C1: for every close timestamp c and evaluation time now, the market is
\* reported new iff 0 <= now - (c - 15 min) <= 3 min and now <= c (both
\* bounds inclusive); outside [c - 15 min, c] it is reported not-new.
C1_FreshIffInWindow ==
  (t_pc = "done" /\ t_market.end_date_iso.k = "iso") =>
    LET c == t_market.end_date_iso.n
        elapsed == t_now - (c - 15 * 60)
    IN  /\ t_result.is_new <=> (0 <= elapsed /\ elapsed <= 3 * 60 /\ t_now <= c)
        /\ (t_now < c - 15 * 60 \/ t_now > c) => ~t_result.is_new

C1_Witness ==
  /\ t_pc = "done" /\ t_market.end_date_iso.k = "iso"
  /\ t_now - (t_market.end_date_iso.n - 15 * 60) = 3 * 60
  /\ t_result.is_new

----------------------------------------------------------------------------
(* generate_prediction on drawn inputs *)

MaxLegs == 2

LegAlphabet ==
  { Leg(LabelUp, List(<<NumStr(610), NumStr(390)>>)),
    Leg(LabelUp, List(<<NumStr(600), NumStr(400)>>)),
    Leg(LabelUP, List(<<Num(500)>>)),
    Leg(LabelDown, AbsentList),
    Leg(LabelDown, List(<<NumStr(600), NumStr(400)>>)),
    Leg(Labeldown, List(<<NumStr(610), NumStr(390)>>)),
    Leg(LabelUp, List(<<Garbage>>)),
    Leg(LabelDown, List(<<>>)),
    Leg(Absent, List(<<NumStr(500)>>)),
    Leg(None, List(<<NumStr(500)>>)) }

LegLists == UNION {[1..n -> LegAlphabet] : n \in 0..MaxLegs}

Volumes == {Num(Fx(50)), NumStr(Fx(300)), Num(Fx(1000)), Garbage, Absent}

Changes ==
  {None} \cup {Num(c) : c \in {-3500, -2001, -2000, -501, -500, 0,
                               500, 501, 2000, 2001, 3500}}

PredictMarkets ==
  {Market("btc-15m", Absent, List(legs), v) : legs \in LegLists, v \in Volumes}
    \cup {Market("btc-15m", Absent, l, Num(Fx(1000))) : l \in {AbsentList, NoneList}}

PredictInit ==
  /\ p_market \in PredictMarkets
  /\ p_change \in Changes
  /\ p_result = Unknown("idle")
  /\ p_pc = "input"
  /\ LoopIdle /\ TimingIdle

\* fetch_btc_price returns the price and the change together, or neither
PriceFor(change) == IF change.k = "none" THEN None ELSE Num(Fx(65000))

Predict ==
  /\ p_pc = "input"
  /\ p_result' = generate_prediction(PriceFor(p_change), p_change, p_market)
  /\ p_pc' = "done"
  /\ UNCHANGED <<p_market, p_change, loopVars, timingVars>>

PredictNext == Predict

PredictSpec == PredictInit /\ [][PredictNext]_vars

RefMomentum(change) ==
  IF change.k = "none" THEN 0
  ELSE CASE change.n > 2000 -> 2
         [] 500 < change.n /\ change.n <= 2000 -> 1
         [] change.n < -2000 -> -2
         [] -2000 <= change.n /\ change.n < -500 -> -1
         [] OTHER -> 0

RefCrowd(diff) ==
  CASE diff > 10000 -> 1
    [] diff < -10000 -> -1
    [] OTHER -> 0

RefDirection(score) ==
  CASE score >= 3 -> <<"UP", "HIGH">>
    [] score = 2 -> <<"UP", "MEDIUM">>
    [] score \in {-1, 0, 1} -> <<"NEUTRAL", "LOW">>
    [] score = -2 -> <<"DOWN", "MEDIUM">>
    [] score <= -3 -> <<"DOWN", "HIGH">>

C10_ScoreBoundsAndDirection ==
  p_pc = "done" =>
    /\ p_result.score \in -3..3
    /\ p_result.prediction = "UP" => (p_change.k = "num" /\ p_change.n > 500)
    /\ p_result.prediction = "DOWN" => (p_change.k = "num" /\ p_change.n < -500)
    /\ p_change.k = "none" =>
         (p_result.prediction \in {"NEUTRAL", "UNKNOWN"} /\ p_result.confidence = "LOW")
    /\ (p_result.confidence = "HIGH" /\ p_result.prediction = "UP") =>
         (p_change.n > 2000 /\ OddsDiff(p_market) > 10000)
    /\ (p_result.confidence = "HIGH" /\ p_result.prediction = "DOWN") =>
         (p_change.n < -2000 /\ OddsDiff(p_market) < -10000)
    /\ p_result.confidence = "HIGH" => p_result.prediction \in {"UP", "DOWN"}

C10_Witness ==
  /\ p_pc = "done"
  /\ p_result.prediction = "DOWN" /\ p_result.confidence = "HIGH"
  /\ p_result.score = -3

====
